---- MODULE Spec2Model ----
(***************************************************************************)
(* State-machine model of the thumbnail editor (src/App.tsx, the types of  *)
(* src/unnamed/part_000 and the Gemini service of src/unnamed/part_001).   *)
(*                                                                         *)
(* Units.  Canvas sizes are in pixels.  Overlay positions (x, y) are       *)
(* stored in tenths of a percent (the code's 50 is 500 here).  Every other *)
(* length (pointer coordinates in canvas space, drag offsets, font sizes,  *)
(* text widths) is in thousandths of a pixel, so that the code's           *)
(* floating-point expressions are exact integers for the sizes used here.  *)
(* Strings that the code parses (URLs, overlay texts, prompts, ids) are    *)
(* sequences of one-character strings.                                     *)
(***************************************************************************)
EXTENDS Integers, Sequences, FiniteSets

\* ------------------------------------------------------------------ bounds

\* Longest overlay list explored.
MaxOverlays == 2
\* Last value of the millisecond clock explored (the clock starts at 0).
MaxNow == 1
\* Most asynchronous operations the model lets be in flight at once.
MaxOps == 2

\* ------------------------------------------------------------ plain values

\* currentImage === null
NoImage == 0
\* Bitmap handles: 1 and 3 decode to 1000x500 pictures, 2 is a payload the
\* browser cannot decode (its Image never fires onload).
Bitmaps == {1, 2, 3}
Decodable(b) == b # 2
NaturalSize(b) == [width |-> 1000, height |-> 500]

\* selectedTextId === null
NoId == <<>>
\* errorMsg === null
NoError == "null"

DEFAULT_ADJUSTMENTS ==
    [brightness |-> 100, contrast |-> 100, saturation |-> 100,
     grayscale |-> 0, sepia |-> 0, blur |-> 0]

\* The <canvas> element before any render has sized it (HTML default).
\* image is the bitmap painted on it.
DefaultCanvas == [width |-> 300, height |-> 150, image |-> NoImage]

\* The box the layout leaves for the preview (max-w-full / max-h-[75vh]).
Viewport == [width |-> 500, height |-> 250]

\* ------------------------------------------------------------ text helpers

IsSpace(c) == c = " "

RECURSIVE TrimStart(_)
TrimStart(s) ==
    IF s = <<>> THEN <<>>
    ELSE IF IsSpace(Head(s)) THEN TrimStart(Tail(s)) ELSE s

RECURSIVE TrimEnd(_)
TrimEnd(s) ==
    IF s = <<>> THEN <<>>
    ELSE IF IsSpace(s[Len(s)]) THEN TrimEnd(SubSeq(s, 1, Len(s) - 1)) ELSE s

\* Mutant of Trim: the text is tested untrimmed.
TrimNothing(s) == s

\* String.prototype.trim
Trim(s) == TrimEnd(TrimStart(s))

Digit(d) == <<"0", "1", "2", "3", "4", "5", "6", "7", "8", "9">>[d + 1]

\* Number.prototype.toString for a non-negative integer
RECURSIVE ToString(_)
ToString(n) ==
    IF n < 10 THEN <<Digit(n)>> ELSE ToString(n \div 10) \o <<Digit(n % 10)>>

\* ------------------------------------------------------------- getYouTubeID

WordChars ==
    {"a", "b", "c", "d", "e", "f", "g", "h", "i", "j", "k", "u", "v", "w",
     "y", "o", "t", "m", "0", "1", "_"}

\* The five alternatives of the regular expression's first group, as
\* patterns: "." matches any character, "\w" a word character.
Markers ==
    << <<"y", "o", "u", "t", "u", ".", "b", "e", "/">>,
       <<"v", "/">>,
       <<"/", "u", "/", "\\w", "/">>,
       <<"e", "m", "b", "e", "d", "/">>,
       <<"w", "a", "t", "c", "h", "?">> >>

PatMatches(p, c) ==
    CASE p = "." -> TRUE
      [] p = "\\w" -> c \in WordChars
      [] OTHER -> p = c

\* Does pattern pat match url starting at position pos?
MatchesAt(url, pos, pat) ==
    /\ pos + Len(pat) - 1 <= Len(url)
    /\ \A k \in 1..Len(pat) : PatMatches(pat[k], url[pos + k - 1])

\* Length of the marker matching at pos (0 when none does); the
\* alternatives are tried in order.
MarkerLenAt(url, pos) ==
    LET hits == {m \in 1..Len(Markers) : MatchesAt(url, pos, Markers[m])}
    IN IF hits = {} THEN 0
       ELSE Len(Markers[CHOOSE m \in hits : \A n \in hits : m <= n])

\* The leading ".*" is greedy: the marker is matched at the rightmost
\* position where one matches.
MarkerPos(url) ==
    LET ps == {p \in 1..Len(url) : MarkerLenAt(url, p) > 0}
    IN IF ps = {} THEN 0 ELSE CHOOSE p \in ps : \A q \in ps : q <= p

\* Skip one optional character c at position pos.
SkipOpt(url, pos, c) ==
    IF pos <= Len(url) /\ url[pos] = c THEN pos + 1 ELSE pos

\* The greedy run [^#&?]* starting at pos.
RECURSIVE IdRun(_, _)
IdRun(url, pos) ==
    IF pos > Len(url) \/ url[pos] \in {"#", "&", "?"} THEN <<>>
    ELSE <<url[pos]>> \o IdRun(url, pos + 1)

NoVideoId == <<>>

getYouTubeID(url) ==
    LET p == MarkerPos(url)
    IN IF p = 0 THEN NoVideoId
       ELSE LET afterMarker == p + MarkerLenAt(url, p)
                afterOpts ==
                    SkipOpt(url, SkipOpt(url, SkipOpt(url, afterMarker, "?"), "v"), "=")
                group7 == IdRun(url, afterOpts)
            IN IF Len(group7) = 11 THEN group7 ELSE NoVideoId

\* ------------------------------------------------------------------ inputs

\* What the user may have typed in the URL field when pressing EXECUTE.
UrlInputs ==
    { <<>>,
      <<"a", "b", "c">>,
      <<"v", "/", "a", "b", "c">>,
      <<"v", "/", "a", "b", "c", "d", "e", "f", "g", "h", "i", "j", "k">>,
      <<"v", "/", "a", "b", "c", "d", "e", "&", "f", "g", "h", "i", "j", "k">>,
      <<"w", "a", "t", "c", "h", "?", "v", "=",
        "a", "b", "c", "d", "e", "f", "g", "h", "i", "j", "k", "&", "t">> }

\* What the user may have typed in the overlay text field when pressing ADD.
TextInputs == { <<>>, <<" ", " ">>, <<"H", "I">> }

\* What the user may have typed in the prompt field when pressing COMPILE_EDIT.
PromptInputs == { <<>>, <<" ">>, <<"g", "o">> }

\* The sliders the page shows (there is none for grayscale and blur).
SliderKeys == {"brightness", "contrast", "saturation", "sepia"}
SliderMin(key) == 0
SliderMax(key) == IF key = "sepia" THEN 100 ELSE 200
\* The range each adjustment is declared with.
DeclaredRange(key) ==
    [min |-> 0,
     max |-> IF key \in {"brightness", "contrast", "saturation"} THEN 200
             ELSE IF key \in {"grayscale", "sepia"} THEN 100
             ELSE 20]
\* Slider movements explored: a slider and the value under the pointer that
\* drags its thumb, here a quarter of the track beyond its upper end.
SliderInputs == { <<"brightness", 250>> }

\* Edits of the "Object Properties" panel explored: a field and its new
\* value (the size slider runs from 10 to 200).
OverlayEdits == { <<"fontSize", 24>> }

\* Pointer positions explored, in percent of the displayed canvas box: two
\* points off the centre, one further off in x, the other in y.
PointerFractions == { <<52, 52>>, <<51, 54>> }

\* Pointer positions on which a new overlay is grabbed at its very centre.
CentreFractions == { <<50, 50>>, <<60, 60>> }

\* getYouTubeID tabulated over the URLs explored.
VideoIdOf == [u \in UrlInputs |-> getYouTubeID(u)]

\* ------------------------------------------------------------------- state

VARIABLES
    currentImage,    \* bitmap handle or NoImage
    adjustments,     \* AdjustmentSettings
    isProcessing,    \* the busy flag
    errorMsg,        \* user-visible error or NoError
    textOverlays,    \* sequence of TextOverlay, insertion order
    selectedTextId,  \* overlay id or NoId
    isDragging,
    dragOffset,      \* [x, y] in thousandths of a pixel
    canvas,          \* intrinsic size of the preview canvas (canvasRef)
    previewLoads,    \* bitmaps whose preview render awaits img.onload
    ops,             \* the asynchronous handlers that are suspended at an await
    now              \* Date.now()

vars ==
    <<currentImage, adjustments, isProcessing, errorMsg, textOverlays,
      selectedTextId, isDragging, dragOffset, canvas, previewLoads, ops, now>>

Init ==
    /\ currentImage = NoImage
    /\ adjustments = DEFAULT_ADJUSTMENTS
    /\ isProcessing = FALSE
    /\ errorMsg = NoError
    /\ textOverlays = <<>>
    /\ selectedTextId = NoId
    /\ isDragging = FALSE
    /\ dragOffset = [x |-> 0, y |-> 0]
    /\ canvas = DefaultCanvas
    /\ previewLoads = {}
    /\ ops = <<>>
    /\ now = 0

\* ---------------------------------------------------------------- helpers

RemoveAt(s, i) == SubSeq(s, 1, i - 1) \o SubSeq(s, i + 1, Len(s))

Ids(overlays) == {overlays[i].id : i \in 1..Len(overlays)}

\* The redraw effect: when one of its dependencies changed and a bitmap is
\* loaded, drawToCanvas starts a render of the preview canvas; the render
\* paints in img.onload, which never fires for an undecodable bitmap.
Redraw(img) ==
    IF img # NoImage /\ Decodable(img) THEN previewLoads \cup {img}
    ELSE previewLoads

\* ------------------------------------------------------- long operations

\* An entry of ops is one invocation of an async handler that is suspended:
\*   kind   "fetch" | "export" | "edit"
\*   stage  "response" (fetch awaits the network), "render" (awaits
\*          drawToCanvas on the hidden canvas), "request" (awaits the
\*          Gemini call)
\*   img    the currentImage the handler's closure captured
\*   prompt the aiPrompt the handler's closure captured
Op(kind, stage, img, prompt) ==
    [kind |-> kind, stage |-> stage, img |-> img, prompt |-> prompt]

\* Mutant of ExportDisabled: EXPORT is disabled by a missing bitmap alone.
ExportDisabledIgnoresBusy == currentImage = NoImage

\* disabled= of the EXECUTE, EXPORT and COMPILE_EDIT buttons
FetchDisabled == isProcessing
ExportDisabled == currentImage = NoImage \/ isProcessing
EditDisabled(aiPrompt) ==
    currentImage = NoImage \/ isProcessing \/ aiPrompt = <<>>

ErrInvalidUrl == "INVALID TARGET URL"
ErrConnection == "CONNECTION FAILED (Check URL or network)"
ErrMissingKey == "ACCESS DENIED: MISSING API KEY"
ErrNoImageData == "GENERATION FAILED: NO IMAGE DATA RETURNED"
ErrGeminiDefault == "AI PROTOCOL FAILURE"
ErrEditDefault == "AI PROTOCOL FAILED"

\* handleFetchYouTube up to its first await
handleFetchYouTube(youtubeUrl) ==
    IF VideoIdOf[youtubeUrl] = NoVideoId
    THEN /\ errorMsg' = ErrInvalidUrl
         /\ UNCHANGED <<currentImage, adjustments, isProcessing, textOverlays,
                        selectedTextId, isDragging, dragOffset, canvas,
                        previewLoads, ops, now>>
    ELSE /\ Len(ops) < MaxOps
         /\ errorMsg' = NoError
         /\ isProcessing' = TRUE
         /\ ops' = Append(ops, Op("fetch", "response", NoImage, <<>>))
         /\ UNCHANGED <<currentImage, adjustments, textOverlays,
                        selectedTextId, isDragging, dragOffset, canvas,
                        previewLoads, now>>

\* A click on EXECUTE: a disabled button dispatches no click.
ClickExecute(youtubeUrl) ==
    IF FetchDisabled THEN UNCHANGED vars ELSE handleFetchYouTube(youtubeUrl)

\* What the network may answer: a blob (decodable or not), or a failure
\* (fetch rejects, or response.ok is false).
FetchOutcomes ==
    {[ok |-> TRUE, blob |-> b] : b \in Bitmaps}
        \cup {[ok |-> FALSE, blob |-> NoImage]}

\* handleFetchYouTube, success path after the awaits, with its finally
FetchSucceeded(i, blob) ==
    /\ currentImage' = blob
    /\ adjustments' = DEFAULT_ADJUSTMENTS
    /\ textOverlays' = <<>>
    /\ selectedTextId' = NoId
    /\ isProcessing' = FALSE
    /\ ops' = RemoveAt(ops, i)
    /\ previewLoads' = Redraw(blob)
    /\ UNCHANGED <<errorMsg, isDragging, dragOffset, canvas, now>>

\* handleFetchYouTube, catch path, with its finally
FetchFailed(i) ==
    /\ errorMsg' = ErrConnection
    /\ isProcessing' = FALSE
    /\ ops' = RemoveAt(ops, i)
    /\ UNCHANGED <<currentImage, adjustments, textOverlays, selectedTextId,
                   isDragging, dragOffset, canvas, previewLoads, now>>

FetchSettled(i, outcome) ==
    /\ ops[i].kind = "fetch"
    /\ IF outcome.ok THEN FetchSucceeded(i, outcome.blob) ELSE FetchFailed(i)

\* handleDownload up to its await
handleDownload ==
    IF currentImage = NoImage THEN UNCHANGED vars
    ELSE /\ Len(ops) < MaxOps
         /\ isProcessing' = TRUE
         /\ ops' = Append(ops, Op("export", "render", currentImage, <<>>))
         /\ UNCHANGED <<currentImage, adjustments, errorMsg, textOverlays,
                        selectedTextId, isDragging, dragOffset, canvas,
                        previewLoads, now>>

ClickExport ==
    IF ExportDisabled THEN UNCHANGED vars ELSE handleDownload

\* drawToCanvas resolves only from img.onload: there is no onerror, so the
\* promise of a render of an undecodable bitmap stays pending for ever.
RenderResolves(img) == Decodable(img)

\* Mutant of ExportRendered: the export ends without clearing the flag.
ExportRenderedStaysBusy(i) ==
    /\ ops[i].kind = "export"
    /\ RenderResolves(ops[i].img)
    /\ ops' = RemoveAt(ops, i)
    /\ UNCHANGED <<currentImage, adjustments, isProcessing, errorMsg,
                   textOverlays, selectedTextId, isDragging, dragOffset,
                   canvas, previewLoads, now>>

\* handleDownload after drawToCanvas resolved: encode, click the link,
\* clear the busy flag
ExportRendered(i) ==
    /\ ops[i].kind = "export"
    /\ RenderResolves(ops[i].img)
    /\ isProcessing' = FALSE
    /\ ops' = RemoveAt(ops, i)
    /\ UNCHANGED <<currentImage, adjustments, errorMsg, textOverlays,
                   selectedTextId, isDragging, dragOffset, canvas,
                   previewLoads, now>>

\* handleGeminiEdit up to its first await
handleGeminiEdit(aiPrompt) ==
    IF currentImage = NoImage \/ Trim(aiPrompt) = <<>> THEN UNCHANGED vars
    ELSE /\ Len(ops) < MaxOps
         /\ isProcessing' = TRUE
         /\ errorMsg' = NoError
         /\ ops' = Append(ops, Op("edit", "render", currentImage, aiPrompt))
         /\ UNCHANGED <<currentImage, adjustments, textOverlays,
                        selectedTextId, isDragging, dragOffset, canvas,
                        previewLoads, now>>

ClickCompileEdit(aiPrompt) ==
    IF EditDisabled(aiPrompt) THEN UNCHANGED vars
    ELSE handleGeminiEdit(aiPrompt)

\* handleGeminiEdit after drawToCanvas resolved: encode and call Gemini
EditRendered(i) ==
    /\ ops[i].kind = "edit"
    /\ ops[i].stage = "render"
    /\ RenderResolves(ops[i].img)
    /\ ops' = [ops EXCEPT ![i].stage = "request"]
    /\ UNCHANGED <<currentImage, adjustments, isProcessing, errorMsg,
                   textOverlays, selectedTextId, isDragging, dragOffset,
                   canvas, previewLoads, now>>

\* hiddenCanvas.toDataURL('image/png').split(',')[1]: the base64 text of a
\* PNG, never empty.
PngBase64(img) == <<"i", "V", "B", "O", "R">> \o ToString(img)

\* What generateContent may do: answer with an image part, answer without
\* one, or throw (message "" stands for an error carrying no message).
GeminiResponses ==
    {[kind |-> "image", bitmap |-> b, message |-> ""] : b \in Bitmaps}
        \cup {[kind |-> "empty", bitmap |-> NoImage, message |-> ""],
              [kind |-> "throw", bitmap |-> NoImage, message |-> ""]}

\* editImageWithGemini: [ok, image, error]
editImageWithGemini(apiKey, base64Image, mimeType, prompt, response) ==
    IF apiKey = <<>>
    THEN [ok |-> FALSE, image |-> NoImage, error |-> ErrMissingKey]
    ELSE CASE response.kind = "image" ->
                [ok |-> TRUE, image |-> response.bitmap, error |-> ""]
           [] response.kind = "empty" ->
                [ok |-> FALSE, image |-> NoImage, error |-> ErrNoImageData]
           [] OTHER ->
                [ok |-> FALSE, image |-> NoImage,
                 error |-> IF response.message = "" THEN ErrGeminiDefault
                           ELSE response.message]

\* handleGeminiEdit, success path after the awaits, with its finally
EditSucceeded(i, newImage) ==
    /\ currentImage' = newImage
    /\ adjustments' = DEFAULT_ADJUSTMENTS
    /\ textOverlays' = <<>>
    /\ isProcessing' = FALSE
    /\ ops' = RemoveAt(ops, i)
    /\ previewLoads' = Redraw(newImage)
    /\ UNCHANGED <<errorMsg, selectedTextId, isDragging, dragOffset, canvas,
                   now>>

\* Mutant of EditFailed: the overlays are cleared before the call returns.
EditFailedDropsOverlays(i, message) ==
    /\ errorMsg' = (IF message = "" THEN "AI PROTOCOL FAILED" ELSE message)
    /\ isProcessing' = FALSE
    /\ ops' = RemoveAt(ops, i)
    /\ textOverlays' = <<>>
    /\ previewLoads' = Redraw(currentImage)
    /\ UNCHANGED <<currentImage, adjustments, selectedTextId, isDragging,
                   dragOffset, canvas, now>>

\* handleGeminiEdit, catch path, with its finally
EditFailed(i, message) ==
    /\ errorMsg' = (IF message = "" THEN ErrEditDefault ELSE message)
    /\ isProcessing' = FALSE
    /\ ops' = RemoveAt(ops, i)
    /\ UNCHANGED <<currentImage, adjustments, textOverlays, selectedTextId,
                   isDragging, dragOffset, canvas, previewLoads, now>>

\* The literal 'image/png', as a text of one token.
ImagePng == <<"image/png">>

\* editImageWithGemini(base64, 'image/png', aiPrompt): the call site passes
\* three arguments to the four-parameter service, so the base64 text is
\* bound to apiKey, 'image/png' to base64Image, the prompt to mimeType, and
\* prompt is undefined (<<>> here).
GeminiCall(base64, aiPrompt) ==
    [apiKey |-> base64, base64Image |-> ImagePng, mimeType |-> aiPrompt,
     prompt |-> <<>>]

\* The contents editImageWithGemini hands to generateContent.
GenerateContentRequest(apiKey, base64Image, mimeType, prompt) ==
    [apiKey |-> apiKey,
     inlineData |-> [data |-> base64Image, mimeType |-> mimeType],
     text |-> prompt]

EditSettled(i, response) ==
    /\ ops[i].kind = "edit"
    /\ ops[i].stage = "request"
    /\ LET call == GeminiCall(PngBase64(ops[i].img), ops[i].prompt)
           result == editImageWithGemini(call.apiKey, call.base64Image,
                                         call.mimeType, call.prompt, response)
       IN IF result.ok THEN EditSucceeded(i, result.image)
          ELSE EditFailed(i, result.error)

\* -------------------------------------------------- adjustments, overlays

\* Mutant of handleReset: the reset also ends the operation in flight.
handleResetClearsBusy ==
    /\ adjustments' = DEFAULT_ADJUSTMENTS
    /\ textOverlays' = <<>>
    /\ selectedTextId' = NoId
    /\ isProcessing' = FALSE
    /\ previewLoads' = Redraw(currentImage)
    /\ UNCHANGED <<currentImage, errorMsg, isDragging, dragOffset, canvas,
                   ops, now>>

handleReset ==
    /\ adjustments' = DEFAULT_ADJUSTMENTS
    /\ textOverlays' = <<>>
    /\ selectedTextId' = NoId
    /\ previewLoads' = Redraw(currentImage)
    /\ UNCHANGED <<currentImage, isProcessing, errorMsg, isDragging,
                   dragOffset, canvas, ops, now>>

\* Mutant of RangeInputValue: the input has no max.
RangeInputValueWithoutMax(min, max, requested) ==
    IF requested < min THEN min ELSE requested

\* e.target.value of <input type="range" min max>: the requested value
\* brought into [min, max].
RangeInputValue(min, max, requested) ==
    IF requested < min THEN min
    ELSE IF requested > max THEN max
    ELSE requested

handleAdjustmentChange(key, value) ==
    /\ adjustments' = [adjustments EXCEPT ![key] = value]
    /\ previewLoads' = Redraw(currentImage)
    /\ UNCHANGED <<currentImage, isProcessing, errorMsg, textOverlays,
                   selectedTextId, isDragging, dragOffset, canvas, ops, now>>

\* onChange of the RangeSlider of an adjustment.
RangeSlider(key, requested) ==
    handleAdjustmentChange(
        key, RangeInputValue(SliderMin(key), SliderMax(key), requested))

\* Mutant of NewOverlay: the overlay starts at the top-left corner.
NewOverlayAtOrigin(newId, newText) ==
    [id |-> newId, text |-> newText, x |-> 0, y |-> 0,
     color |-> "#00ff00", fontSize |-> 48, fontFamily |-> "Share Tech Mono"]

\* The overlay handleAddText builds (x, y in tenths of a percent).
NewOverlay(newId, newText) ==
    [id |-> newId, text |-> newText, x |-> 500, y |-> 500,
     color |-> "#00ff00", fontSize |-> 48, fontFamily |-> "Share Tech Mono"]

handleAddText(newText) ==
    IF Trim(newText) = <<>> THEN UNCHANGED vars
    ELSE LET newId == ToString(now)
         IN /\ Len(textOverlays) < MaxOverlays
            /\ textOverlays' = Append(textOverlays, NewOverlay(newId, newText))
            /\ selectedTextId' = newId
            /\ previewLoads' = Redraw(currentImage)
            /\ UNCHANGED <<currentImage, adjustments, isProcessing, errorMsg,
                           isDragging, dragOffset, canvas, ops, now>>

\* Mutant of ReplaceField: the field is replaced in every overlay.
ReplaceFieldEverywhere(overlays, id, key, value) ==
    [i \in 1..Len(overlays) |-> [overlays[i] EXCEPT ![key] = value]]

\* prev.map(t => t.id === selectedTextId ? { ...t, [key]: value } : t)
ReplaceField(overlays, id, key, value) ==
    [i \in 1..Len(overlays) |->
        IF overlays[i].id = id
        THEN [overlays[i] EXCEPT ![key] = value]
        ELSE overlays[i]]

\* The map builds a new array even when no overlay matches, so the redraw
\* effect runs again.
updateSelectedText(key, value) ==
    IF selectedTextId = NoId THEN UNCHANGED vars
    ELSE /\ textOverlays' = ReplaceField(textOverlays, selectedTextId, key, value)
         /\ previewLoads' = Redraw(currentImage)
         /\ UNCHANGED <<currentImage, adjustments, isProcessing, errorMsg,
                        selectedTextId, isDragging, dragOffset, canvas, ops,
                        now>>

\* onClick of an entry of the overlay list
SelectListItem(id) ==
    /\ id \in Ids(textOverlays)
    /\ selectedTextId' = id
    /\ previewLoads' =
           IF id # selectedTextId THEN Redraw(currentImage) ELSE previewLoads
    /\ UNCHANGED <<currentImage, adjustments, isProcessing, errorMsg,
                   textOverlays, isDragging, dragOffset, canvas, ops, now>>

\* prev.filter(p => p.id !== id)
FilterOut(overlays, id) ==
    LET keep(o) == o.id # id
    IN SelectSeq(overlays, keep)

\* onClick of the [X] button of an entry of the overlay list
DeleteListItem(id) ==
    /\ id \in Ids(textOverlays)
    /\ textOverlays' = FilterOut(textOverlays, id)
    /\ previewLoads' = Redraw(currentImage)
    /\ UNCHANGED <<currentImage, adjustments, isProcessing, errorMsg,
                   selectedTextId, isDragging, dragOffset, canvas, ops, now>>

\* ----------------------------------------------------------------- pointer

\* canvasRef.current.getBoundingClientRect(): the canvas is shown at its
\* intrinsic size when that fits the viewport and scaled down to it
\* otherwise (both canvas sizes of the model are 2:1, like the viewport).
BoundingClientRect(cv) ==
    IF cv.width <= Viewport.width /\ cv.height <= Viewport.height
    THEN [left |-> 40, top |-> 20, width |-> cv.width, height |-> cv.height]
    ELSE [left |-> 40, top |-> 20,
          width |-> Viewport.width, height |-> Viewport.height]

\* The mouse events at the given fractions of the displayed canvas box, in
\* client coordinates.
MouseEventsAt(fractions) ==
    LET rect == BoundingClientRect(canvas)
    IN {[clientX |-> rect.left + (rect.width * f[1]) \div 100,
         clientY |-> rect.top + (rect.height * f[2]) \div 100]
            : f \in fractions}

\* The mouse events explored.
MouseEvents == MouseEventsAt(PointerFractions)
CentreEvents == MouseEventsAt(CentreFractions)

\* Mutant of getCanvasCoordinates: the client offsets are taken as canvas
\* pixels.
getCanvasCoordinatesUnscaled(e) ==
    LET rect == BoundingClientRect(canvas)
    IN [x |-> (e.clientX - rect.left) * 1000,
        y |-> (e.clientY - rect.top) * 1000]

\* [x, y] in thousandths of a canvas pixel
getCanvasCoordinates(e) ==
    LET rect == BoundingClientRect(canvas)
    IN [x |-> ((e.clientX - rect.left) * canvas.width * 1000) \div rect.width,
        y |-> ((e.clientY - rect.top) * canvas.height * 1000) \div rect.height]

\* overlay.fontSize * (canvas.width / 1000), in thousandths of a pixel
FontSizePx(overlay, cv) == overlay.fontSize * cv.width

\* ctx.measureText(text).width under a bold font of the given size: every
\* character advances half an em.
MeasureTextWidth(text, fontSizePx) == (Len(text) * fontSizePx) \div 2

\* (overlay.x / 100) * canvas.width and (overlay.y / 100) * canvas.height,
\* in thousandths of a pixel
TextX(overlay, cv) == overlay.x * cv.width
TextY(overlay, cv) == overlay.y * cv.height

\* The collision test of handleCanvasMouseDown; the halves of the code are
\* cleared by doubling both sides.
HitBoxContains(overlay, cv, p) ==
    LET textWidth == MeasureTextWidth(overlay.text, FontSizePx(overlay, cv))
        textHeight == FontSizePx(overlay, cv)
        textX == TextX(overlay, cv)
        textY == TextY(overlay, cv)
    IN /\ 2 * p.x >= 2 * textX - textWidth
       /\ 2 * p.x <= 2 * textX + textWidth
       /\ 2 * p.y >= 2 * textY - textHeight
       /\ 2 * p.y <= 2 * textY + textHeight

\* Mutant of HitScan: the overlays are scanned from the first inserted on.
HitScanFromFirst(i, p) ==
    LET hits == {k \in 1..i : HitBoxContains(textOverlays[k], canvas, p)}
    IN IF hits = {} THEN 0 ELSE CHOOSE k \in hits : \A h \in hits : k <= h

\* The loop of handleCanvasMouseDown, from index i down: the index of the
\* first overlay struck, 0 when none is.
RECURSIVE HitScan(_, _)
HitScan(i, p) ==
    IF i = 0 THEN 0
    ELSE IF HitBoxContains(textOverlays[i], canvas, p) THEN i
    ELSE HitScan(i - 1, p)

handleCanvasMouseDown(e) ==
    IF currentImage = NoImage THEN UNCHANGED vars
    ELSE LET p == getCanvasCoordinates(e)
             hit == HitScan(Len(textOverlays), p)
         IN IF hit # 0
            THEN /\ selectedTextId' = textOverlays[hit].id
                 /\ isDragging' = TRUE
                 /\ dragOffset' =
                        [x |-> p.x - TextX(textOverlays[hit], canvas),
                         y |-> p.y - TextY(textOverlays[hit], canvas)]
                 /\ previewLoads' =
                        IF textOverlays[hit].id # selectedTextId
                        THEN Redraw(currentImage) ELSE previewLoads
                 /\ UNCHANGED <<currentImage, adjustments, isProcessing,
                                errorMsg, textOverlays, canvas, ops, now>>
            ELSE /\ selectedTextId' = NoId
                 /\ previewLoads' =
                        IF selectedTextId # NoId
                        THEN Redraw(currentImage) ELSE previewLoads
                 /\ UNCHANGED <<currentImage, adjustments, isProcessing,
                                errorMsg, textOverlays, isDragging,
                                dragOffset, canvas, ops, now>>

\* Mutant of MoveSelected: every overlay is moved.
MoveEvery(overlays, id, newX, newY) ==
    [i \in 1..Len(overlays) |->
        [overlays[i] EXCEPT !.x = newX, !.y = newY]]

\* prev.map(t => t.id === selectedTextId ? { ...t, x: newX, y: newY } : t)
MoveSelected(overlays, id, newX, newY) ==
    [i \in 1..Len(overlays) |->
        IF overlays[i].id = id
        THEN [overlays[i] EXCEPT !.x = newX, !.y = newY]
        ELSE overlays[i]]

\* Mutant of handleCanvasMouseMove: a move is ignored while busy.
handleCanvasMouseMoveWhenIdle(e) ==
    IF ~isDragging \/ selectedTextId = NoId \/ isProcessing
    THEN UNCHANGED vars
    ELSE LET p == getCanvasCoordinates(e)
             newX == (p.x - dragOffset.x) \div canvas.width
             newY == (p.y - dragOffset.y) \div canvas.height
         IN /\ textOverlays' =
                   MoveSelected(textOverlays, selectedTextId, newX, newY)
            /\ previewLoads' = Redraw(currentImage)
            /\ UNCHANGED <<currentImage, adjustments, isProcessing, errorMsg,
                           selectedTextId, isDragging, dragOffset, canvas,
                           ops, now>>

handleCanvasMouseMove(e) ==
    IF ~isDragging \/ selectedTextId = NoId THEN UNCHANGED vars
    ELSE LET p == getCanvasCoordinates(e)
             newX == (p.x - dragOffset.x) \div canvas.width
             newY == (p.y - dragOffset.y) \div canvas.height
         IN /\ textOverlays' =
                   MoveSelected(textOverlays, selectedTextId, newX, newY)
            /\ previewLoads' = Redraw(currentImage)
            /\ UNCHANGED <<currentImage, adjustments, isProcessing, errorMsg,
                           selectedTextId, isDragging, dragOffset, canvas,
                           ops, now>>

\* Mutant of handleCanvasMouseUp: the release also drops the selection.
handleCanvasMouseUpDeselects ==
    /\ isDragging' = FALSE
    /\ selectedTextId' = NoId
    /\ previewLoads' =
           IF selectedTextId # NoId THEN Redraw(currentImage) ELSE previewLoads
    /\ UNCHANGED <<currentImage, adjustments, isProcessing, errorMsg,
                   textOverlays, dragOffset, canvas, ops, now>>

\* onMouseUp and onMouseLeave of the preview canvas
handleCanvasMouseUp ==
    /\ isDragging' = FALSE
    /\ UNCHANGED <<currentImage, adjustments, isProcessing, errorMsg,
                   textOverlays, selectedTextId, dragOffset, canvas,
                   previewLoads, ops, now>>

\* img.onload of a preview render: the canvas takes the bitmap's size and
\* the bitmap is drawn on it.
PreviewLoaded(img) ==
    /\ img \in previewLoads
    /\ canvas' = [width |-> NaturalSize(img).width,
                  height |-> NaturalSize(img).height,
                  image |-> img]
    /\ previewLoads' = previewLoads \ {img}
    /\ UNCHANGED <<currentImage, adjustments, isProcessing, errorMsg,
                   textOverlays, selectedTextId, isDragging, dragOffset,
                   ops, now>>

\* The millisecond clock advances.
Tick ==
    /\ now < MaxNow
    /\ now' = now + 1
    /\ UNCHANGED <<currentImage, adjustments, isProcessing, errorMsg,
                   textOverlays, selectedTextId, isDragging, dragOffset,
                   canvas, previewLoads, ops>>

\* --------------------------------------------------------------- rendering

\* The two canvas elements: canvasRef.current and hiddenCanvasRef.current.
PreviewCanvas == "canvasRef"
HiddenCanvas == "hiddenCanvasRef"

\* ctx.filter: the six functions in the order of the filter string, each
\* with its argument.
FilterString(adjs) ==
    << <<"brightness", adjs.brightness>>, <<"contrast", adjs.contrast>>,
       <<"saturate", adjs.saturation>>, <<"grayscale", adjs.grayscale>>,
       <<"sepia", adjs.sepia>>, <<"blur", adjs.blur>> >>

\* ctx.fillText(overlay.text, xPos, yPos) with the font, alignment and fill
\* style set before it; lengths in thousandths of a pixel.
FillText(overlay, cv) ==
    [text |-> overlay.text,
     x |-> overlay.x * cv.width,
     y |-> overlay.y * cv.height,
     fontSizePx |-> overlay.fontSize * cv.width,
     fontFamily |-> overlay.fontFamily,
     fillStyle |-> overlay.color,
     textAlign |-> "center",
     textBaseline |-> "middle"]

\* Mutant of StrokeRect: the rectangle starts at the anchor.
StrokeRectFromAnchor(overlay, cv) ==
    LET fontSizePx == overlay.fontSize * cv.width
        width == MeasureTextWidth(overlay.text, fontSizePx) + 20000
        height == fontSizePx + 20000
    IN [x |-> overlay.x * cv.width, y |-> overlay.y * cv.height,
        width |-> width, height |-> height]

\* ctx.strokeRect(xPos - width/2, yPos - height/2, width, height) of the
\* selection box; lengths in thousandths of a pixel.
StrokeRect(overlay, cv) ==
    LET fontSizePx == overlay.fontSize * cv.width
        width == MeasureTextWidth(overlay.text, fontSizePx) + 20000
        height == fontSizePx + 20000
    IN [x |-> overlay.x * cv.width - width \div 2,
        y |-> overlay.y * cv.height - height \div 2,
        width |-> width, height |-> height]

\* Mutant of DrawsSelectionBox: every overlay of the preview is outlined.
DrawsSelectionBoxOnEveryOverlay(target, selectionId, overlay) ==
    target = PreviewCanvas

\* Mutant of DrawsSelectionBox: the selected overlay is outlined on either
\* canvas.
DrawsSelectionBoxOnAnyCanvas(target, selectionId, overlay) ==
    selectionId = overlay.id

\* selectionId === overlay.id && canvas === canvasRef.current
DrawsSelectionBox(target, selectionId, overlay) ==
    selectionId = overlay.id /\ target = PreviewCanvas

\* What img.onload of drawToCanvas paints on the target canvas: the canvas
\* takes the bitmap's size, the filtered bitmap is drawn, then every
\* overlay in list order, each followed by its selection box when wanted.
drawToCanvas(target, img, adjs, overlays, selectionId) ==
    LET cv == NaturalSize(img)
        boxed(o) == DrawsSelectionBox(target, selectionId, o)
        outlined == SelectSeq(overlays, boxed)
    IN [width |-> cv.width,
        height |-> cv.height,
        image |-> img,
        filter |-> FilterString(adjs),
        texts |-> [i \in 1..Len(overlays) |-> FillText(overlays[i], cv)],
        boxes |-> [k \in 1..Len(outlined) |-> StrokeRect(outlined[k], cv)]]

\* The render handleDownload and handleGeminiEdit start on the hidden
\* canvas in the current state.
ExportRender ==
    drawToCanvas(HiddenCanvas, currentImage, adjustments, textOverlays, NoId)

\* The render the redraw effect starts on the preview canvas in the
\* current state.
PreviewRender ==
    drawToCanvas(PreviewCanvas, currentImage, adjustments, textOverlays,
                 selectedTextId)

\* ------------------------------------------------------------ specification

\* Every handler, with the network and Gemini answering in every way and
\* the pointer grabbing overlays at their centre.
Next ==
    \/ \E u \in UrlInputs : ClickExecute(u)
    \/ \E i \in 1..Len(ops) : \E o \in FetchOutcomes : FetchSettled(i, o)
    \/ ClickExport
    \/ \E i \in 1..Len(ops) : ExportRendered(i)
    \/ \E a \in PromptInputs : ClickCompileEdit(a)
    \/ \E i \in 1..Len(ops) : EditRendered(i)
    \/ \E i \in 1..Len(ops) : \E r \in GeminiResponses : EditSettled(i, r)
    \/ handleReset
    \/ \E s \in SliderInputs : RangeSlider(s[1], s[2])
    \/ \E t \in TextInputs : handleAddText(t)
    \/ \E d \in OverlayEdits : updateSelectedText(d[1], d[2])
    \/ \E id \in Ids(textOverlays) : SelectListItem(id)
    \/ \E id \in Ids(textOverlays) : DeleteListItem(id)
    \/ \E e \in CentreEvents : handleCanvasMouseDown(e)
    \/ \E e \in CentreEvents : handleCanvasMouseMove(e)
    \/ handleCanvasMouseUp
    \/ \E b \in previewLoads : PreviewLoaded(b)
    \/ Tick

Spec == Init /\ [][Next]_vars

\* What the network and Gemini answer when all goes well.
GoodUrl == <<"v", "/", "a", "b", "c", "d", "e", "f", "g", "h", "i", "j", "k">>
GoodFetch == [ok |-> TRUE, blob |-> 1]
GoodResponse == [kind |-> "image", bitmap |-> 1, message |-> ""]

\* Every handler, with the network and Gemini answering well and the
\* pointer grabbing overlays off their centre.
DragNext ==
    \/ ClickExecute(GoodUrl)
    \/ \E i \in 1..Len(ops) : FetchSettled(i, GoodFetch)
    \/ ClickExport
    \/ \E i \in 1..Len(ops) : ExportRendered(i)
    \/ \E a \in PromptInputs : ClickCompileEdit(a)
    \/ \E i \in 1..Len(ops) : EditRendered(i)
    \/ \E i \in 1..Len(ops) : EditSettled(i, GoodResponse)
    \/ handleReset
    \/ \E s \in SliderInputs : RangeSlider(s[1], s[2])
    \/ \E t \in TextInputs : handleAddText(t)
    \/ \E d \in OverlayEdits : updateSelectedText(d[1], d[2])
    \/ \E id \in Ids(textOverlays) : SelectListItem(id)
    \/ \E id \in Ids(textOverlays) : DeleteListItem(id)
    \/ \E e \in MouseEvents : handleCanvasMouseDown(e)
    \/ \E e \in MouseEvents : handleCanvasMouseMove(e)
    \/ handleCanvasMouseUp
    \/ \E b \in previewLoads : PreviewLoaded(b)
    \/ Tick

DragSpec == Init /\ [][DragNext]_vars

\* Every pending network call, Gemini call and image load of a decodable
\* bitmap eventually completes (the event loop delivers its callback).
Fairness ==
    /\ WF_vars(\E i \in 1..Len(ops) : \E o \in FetchOutcomes : FetchSettled(i, o))
    /\ WF_vars(\E i \in 1..Len(ops) : ExportRendered(i))
    /\ WF_vars(\E i \in 1..Len(ops) : EditRendered(i))
    /\ WF_vars(\E i \in 1..Len(ops) : \E r \in GeminiResponses : EditSettled(i, r))
    /\ WF_vars(\E b \in previewLoads : PreviewLoaded(b))

FairSpec == Spec /\ Fairness

\* ------------------------------------------------------------------ claims

InFlight == Len(ops)

\* C1: the selection is empty or the id of an overlay in the list.
SelectionReferencesOverlay ==
    selectedTextId = NoId \/ selectedTextId \in Ids(textOverlays)

\* C2: never two long operations in flight; while the busy flag is set no
\* operation starts, and a click on EXECUTE, EXPORT or COMPILE_EDIT changes
\* neither the session state nor the set of operations in flight.
BusyGateRejects ==
    /\ [](InFlight <= 1)
    /\ [][isProcessing => Len(ops') <= Len(ops)]_vars
    /\ [][(/\ isProcessing
           /\ \/ \E u \in UrlInputs : ClickExecute(u)
              \/ ClickExport
              \/ \E a \in PromptInputs : ClickCompileEdit(a))
          => UNCHANGED <<currentImage, adjustments, textOverlays,
                         selectedTextId, isProcessing, ops>>]_vars

\* C2 witness: a fetch is in flight over a loaded bitmap, the state in
\* which a click on EXPORT is turned away only by the busy flag.
BusyWithBitmapLoaded ==
    /\ isProcessing
    /\ InFlight = 1
    /\ ops[1].kind = "fetch"
    /\ currentImage # NoImage

\* C3: the busy flag is set exactly while a fetch, export or edit has
\* started and not completed.
BusyIffInFlight == isProcessing <=> InFlight > 0

\* C3 witness: an export is in flight with the flag set, after an earlier
\* edit failed and cleared it (both edges of the flag were taken).
ExportInFlight ==
    /\ isProcessing
    /\ InFlight = 1
    /\ ops[1].kind = "export"
    /\ errorMsg = ErrNoImageData

\* C4: once the busy flag is set it is eventually cleared.
BusyEventuallyClears == isProcessing ~> ~isProcessing

\* C5: a step that loads a new bitmap (fetch success or edit success)
\* ends with that bitmap, neutral adjustments, no overlay and no selection.
LoadResetsSession ==
    [][\A i \in 1..Len(ops) : \A b \in Bitmaps :
          (\/ ops[i].kind = "fetch" /\ FetchSucceeded(i, b)
           \/ ops[i].kind = "edit" /\ ops[i].stage = "request"
                 /\ EditSucceeded(i, b))
          => /\ currentImage' = b
             /\ adjustments' = DEFAULT_ADJUSTMENTS
             /\ textOverlays' = <<>>
             /\ selectedTextId' = NoId]_vars

FailureMessages == {ErrMissingKey, ErrNoImageData, ErrGeminiDefault, ErrEditDefault}

\* C6: a step in which a fetch or an edit fails leaves bitmap, adjustments,
\* overlays and selection as they were, and clears the busy flag.
FailureKeepsSession ==
    [][\A i \in 1..Len(ops) :
          (\/ ops[i].kind = "fetch" /\ FetchFailed(i)
           \/ ops[i].kind = "edit" /\ ops[i].stage = "request"
                 /\ \E m \in FailureMessages : EditFailed(i, m))
          => /\ UNCHANGED <<currentImage, adjustments, textOverlays,
                            selectedTextId>>
             /\ ~isProcessing']_vars

\* C6 witness: an edit has failed over a loaded bitmap with an overlay
\* selected and an adjustment moved, all still in place.
EditFailedOverEditedSession ==
    /\ errorMsg = ErrNoImageData
    /\ ~isProcessing
    /\ currentImage # NoImage
    /\ textOverlays # <<>>
    /\ selectedTextId # NoId
    /\ adjustments # DEFAULT_ADJUSTMENTS

\* C7: removing the selected overlay empties the selection in the same
\* step; removing another overlay leaves the selection as it was.
RemoveClearsSelection ==
    [][\A id \in Ids(textOverlays) :
          DeleteListItem(id)
          => selectedTextId' = (IF selectedTextId = id THEN NoId
                                ELSE selectedTextId)]_vars

\* A text of whitespace only (or empty).
Blank(t) == \A k \in 1..Len(t) : t[k] = " "

\* C8: ADD with a blank text changes neither overlays nor selection; a
\* fetch with a malformed URL changes none of bitmap, adjustments, overlays,
\* selection and busy flag and starts no operation.
InvalidInputRejected ==
    [][/\ \A t \in TextInputs :
             (Blank(t) /\ handleAddText(t))
             => UNCHANGED <<textOverlays, selectedTextId>>
       /\ \A u \in UrlInputs :
             (VideoIdOf[u] = NoVideoId /\ ClickExecute(u))
             => UNCHANGED <<currentImage, adjustments, textOverlays,
                            selectedTextId, isProcessing, ops>>]_vars

\* C8 witness: a malformed URL was turned away while overlays exist.
MalformedUrlTurnedAway ==
    /\ errorMsg = ErrInvalidUrl
    /\ textOverlays # <<>>
    /\ ~isProcessing
    /\ ops = <<>>

\* C9: no two overlays of the list share an identifier.
OverlayIdsUnique ==
    \A i, j \in 1..Len(textOverlays) :
        i # j => textOverlays[i].id # textOverlays[j].id

\* C10: ADD with a non-blank text appends exactly one overlay, centered,
\* with the default color, size and font, and selects it.
AddAppendsCenteredSelected ==
    [][\A t \in TextInputs :
          (~Blank(t) /\ handleAddText(t))
          => LET n == Len(textOverlays)
             IN /\ Len(textOverlays') = n + 1
                /\ SubSeq(textOverlays', 1, n) = textOverlays
                /\ textOverlays'[n + 1].text = t
                /\ textOverlays'[n + 1].x = 500
                /\ textOverlays'[n + 1].y = 500
                /\ textOverlays'[n + 1].color = "#00ff00"
                /\ textOverlays'[n + 1].fontSize = 48
                /\ textOverlays'[n + 1].fontFamily = "Share Tech Mono"
                /\ selectedTextId' = textOverlays'[n + 1].id]_vars

\* C10 witness: a second overlay was just added behind a moved first one.
SecondOverlayAdded ==
    /\ Len(textOverlays) = 2
    /\ textOverlays[1].x # 500
    /\ textOverlays[2].x = 500
    /\ textOverlays[2].y = 500
    /\ selectedTextId = textOverlays[2].id

\* The state cells of the session other than the overlay list.
SessionButOverlays ==
    <<currentImage, adjustments, isProcessing, errorMsg, selectedTextId,
      isDragging, dragOffset, canvas, ops, now>>

\* C11: an edit of a field of the selected overlay replaces that field in
\* the overlay carrying the selected id and changes no other field, no
\* overlay of another id, not the order and not the selection; with a
\* selection that names no overlay of the list, an edit and a pointer-move
\* leave every state cell of the session as it was.
UpdateReplacesNamedField ==
    [][/\ \A d \in OverlayEdits :
             updateSelectedText(d[1], d[2])
             => /\ UNCHANGED SessionButOverlays
                /\ Len(textOverlays') = Len(textOverlays)
                /\ \A i \in 1..Len(textOverlays) :
                      textOverlays'[i] =
                          IF textOverlays[i].id = selectedTextId
                          THEN [textOverlays[i] EXCEPT ![d[1]] = d[2]]
                          ELSE textOverlays[i]
       /\ selectedTextId \notin Ids(textOverlays)
             => \A d \in OverlayEdits : \A e \in MouseEvents :
                   (updateSelectedText(d[1], d[2]) \/ handleCanvasMouseMove(e))
                   => UNCHANGED <<textOverlays, SessionButOverlays>>]_vars

\* C11 witness: of two overlays with different ids the selected first one
\* was resized and moved, the second one still has the initial size.
FirstOfTwoResized ==
    /\ Len(textOverlays) = 2
    /\ textOverlays[1].id # textOverlays[2].id
    /\ selectedTextId = textOverlays[1].id
    /\ textOverlays[1].fontSize = 24
    /\ textOverlays[1].x # 500
    /\ textOverlays[2].fontSize = 48

\* C12: a reset ends with neutral adjustments, no overlay and no selection,
\* and with the bitmap and the busy flag it started with.
ResetRestoresDefaults ==
    [][handleReset
       => /\ adjustments' = DEFAULT_ADJUSTMENTS
          /\ textOverlays' = <<>>
          /\ selectedTextId' = NoId
          /\ UNCHANGED <<currentImage, isProcessing>>]_vars

\* C12 witness: during an export everything was reset in the middle of a
\* drag: the bitmap and the busy flag are still there.
ResetDuringExport ==
    /\ isProcessing
    /\ InFlight = 1
    /\ ops[1].kind = "export"
    /\ currentImage # NoImage
    /\ isDragging
    /\ adjustments = DEFAULT_ADJUSTMENTS
    /\ textOverlays = <<>>
    /\ selectedTextId = NoId

\* The bounding box of an overlay on a canvas, in thousandths of a pixel:
\* centred on the overlay's pixel position, as wide as its measured text,
\* as high as its effective font size.
CentredBox(overlay, cv) ==
    [cx |-> (overlay.x * cv.width), cy |-> (overlay.y * cv.height),
     width |-> (Len(overlay.text) * overlay.fontSize * cv.width) \div 2,
     height |-> overlay.fontSize * cv.width]

Dist(a, b) == IF a >= b THEN a - b ELSE b - a

InsideBox(p, box) ==
    /\ 2 * Dist(p.x, box.cx) <= box.width
    /\ 2 * Dist(p.y, box.cy) <= box.height

\* The overlays whose box contains the point, by index.
Struck(p) ==
    {i \in 1..Len(textOverlays) :
        InsideBox(p, CentredBox(textOverlays[i], canvas))}

Last(indices) == CHOOSE i \in indices : \A j \in indices : j <= i

\* C13: with a bitmap loaded, a pointer-down selects the last-inserted of
\* the overlays whose centred box contains the point and starts dragging;
\* when no box contains the point it empties the selection and starts no
\* drag.
PointerDownPicksTopmost ==
    [][\A e \in MouseEvents :
          (currentImage # NoImage /\ handleCanvasMouseDown(e))
          => LET struck == Struck(getCanvasCoordinates(e))
             IN IF struck # {}
                THEN /\ selectedTextId' = textOverlays[Last(struck)].id
                     /\ isDragging'
                ELSE /\ selectedTextId' = NoId
                     /\ isDragging' = isDragging]_vars

\* C13 witness: of two overlays with different ids whose boxes both
\* contain the grabbed point, the second one is selected and dragged.
TopmostOfTwoGrabbed ==
    /\ Len(textOverlays) = 2
    /\ textOverlays[1].id # textOverlays[2].id
    /\ isDragging
    /\ selectedTextId = textOverlays[2].id
    /\ LET grabbed == [x |-> TextX(textOverlays[2], canvas) + dragOffset.x,
                       y |-> TextY(textOverlays[2], canvas) + dragOffset.y]
       IN /\ dragOffset.x # 0
          /\ Struck(grabbed) = {1, 2}

\* The pixel position of an overlay's anchor on a canvas, in thousandths of
\* a pixel.
Anchor(overlay, cv) ==
    [x |-> overlay.x * cv.width, y |-> overlay.y * cv.height]

\* A display point in bitmap pixels (thousandths): the offset into the
\* displayed box times bitmap size over display size.
BitmapPoint(e) ==
    LET rect == BoundingClientRect(canvas)
    IN [x |-> ((e.clientX - rect.left) * 1000 * canvas.width) \div rect.width,
        y |-> ((e.clientY - rect.top) * 1000 * canvas.height) \div rect.height]

\* C14: a pointer-down at P inside an overlay's box moves no overlay and
\* holds the overlay at P minus its anchor; each pointer-move of that drag
\* to a point Q puts the anchor at Q minus what is held, so that the anchor
\* has moved by Q - P; all points are display points scaled to bitmap
\* pixels.
DragKeepsGrabOffset ==
    [][\A e \in MouseEvents :
          LET P == BitmapPoint(e)
              struck == Struck(P)
          IN /\ (currentImage # NoImage /\ struck # {}
                    /\ handleCanvasMouseDown(e))
                => LET a == Anchor(textOverlays[Last(struck)], canvas)
                   IN /\ textOverlays' = textOverlays
                      /\ dragOffset' = [x |-> P.x - a.x, y |-> P.y - a.y]
             /\ (isDragging /\ handleCanvasMouseMove(e))
                => \A i \in 1..Len(textOverlays) :
                      textOverlays[i].id = selectedTextId
                      => Anchor(textOverlays'[i], canvas) =
                             [x |-> P.x - dragOffset.x,
                              y |-> P.y - dragOffset.y]]_vars

\* C14 witness: on the canvas at bitmap size, shown at half that size, the
\* selected overlay is being dragged off its centre and has left its
\* initial position.
DraggedOffCentre ==
    /\ canvas.width = NaturalSize(1).width
    /\ BoundingClientRect(canvas).width # canvas.width
    /\ isDragging
    /\ dragOffset.x # 0
    /\ dragOffset.y # 0
    /\ \E i \in 1..Len(textOverlays) :
          /\ textOverlays[i].id = selectedTextId
          /\ textOverlays[i].x # 500
          /\ textOverlays[i].y # 500

\* C15: a pointer-up or the pointer leaving the canvas ends the drag and
\* changes neither the selection nor any overlay; while no drag is on, a
\* pointer-move changes no overlay, and a drag begins only by a
\* pointer-down that strikes an overlay.
PointerUpEndsDrag ==
    [][/\ handleCanvasMouseUp
             => /\ ~isDragging'
                /\ UNCHANGED <<selectedTextId, textOverlays>>
       /\ \A e \in MouseEvents :
             (~isDragging /\ handleCanvasMouseMove(e))
             => UNCHANGED textOverlays
       /\ (~isDragging /\ isDragging')
             => \E e \in MouseEvents :
                   /\ handleCanvasMouseDown(e)
                   /\ currentImage # NoImage
                   /\ Struck(BitmapPoint(e)) # {}]_vars

\* C15 witness: a drag that moved the selected overlay has ended; the
\* overlay is still selected and still where the drag left it.
DragEndedAwayFromStart ==
    /\ ~isDragging
    /\ dragOffset.x # 0
    /\ \E i \in 1..Len(textOverlays) :
          /\ textOverlays[i].id = selectedTextId
          /\ textOverlays[i].x # 500

\* C16: with no selection the render onto the preview canvas equals the
\* render onto the hidden canvas: both have the bitmap's native size, the
\* filter of the adjustments, every overlay painted in list order at its
\* anchor, and nothing else.
RenderParity ==
    currentImage # NoImage =>
        LET onPreview == drawToCanvas(PreviewCanvas, currentImage, adjustments,
                                      textOverlays, NoId)
            native == NaturalSize(currentImage)
        IN /\ onPreview = ExportRender
           /\ selectedTextId = NoId => PreviewRender = ExportRender
           /\ ExportRender.width = native.width
           /\ ExportRender.height = native.height
           /\ \A k \in 1..6 :
                 ExportRender.filter[k][2] =
                     adjustments[<<"brightness", "contrast", "saturation",
                                   "grayscale", "sepia", "blur">>[k]]
           /\ Len(ExportRender.texts) = Len(textOverlays)
           /\ \A i \in 1..Len(textOverlays) :
                 /\ ExportRender.texts[i].text = textOverlays[i].text
                 /\ ExportRender.texts[i].x = Anchor(textOverlays[i], native).x
                 /\ ExportRender.texts[i].y = Anchor(textOverlays[i], native).y
           /\ ExportRender.boxes = <<>>

\* C16 witness: an export is in flight over a decodable bitmap with an
\* adjustment moved and two overlays at different places, none selected.
ExportOfUnselectedOverlays ==
    /\ InFlight = 1
    /\ ops[1].kind = "export"
    /\ currentImage = 1
    /\ selectedTextId = NoId
    /\ adjustments # DEFAULT_ADJUSTMENTS
    /\ Len(textOverlays) = 2
    /\ textOverlays[1].x # textOverlays[2].x

\* C17: the render on the hidden canvas, which export and AI edit read
\* back, has no selection box whatever the selection is, and every selection
\* box of the preview render is the box of an overlay whose id is the
\* selection.
OutlineOnlyOnPreview ==
    currentImage # NoImage =>
        /\ ExportRender.boxes = <<>>
        /\ drawToCanvas(HiddenCanvas, currentImage, adjustments, textOverlays,
                        selectedTextId).boxes = <<>>
        /\ \A k \in 1..Len(PreviewRender.boxes) :
              \E i \in 1..Len(textOverlays) :
                 /\ textOverlays[i].id = selectedTextId
                 /\ PreviewRender.boxes[k] =
                        StrokeRect(textOverlays[i], NaturalSize(currentImage))
        /\ Len(PreviewRender.boxes) =
               Cardinality({i \in 1..Len(textOverlays) :
                               textOverlays[i].id = selectedTextId})

\* C17 witness: an export or an AI edit is in flight while one of two
\* overlays is selected and outlined on the preview.
ExportWhileSelected ==
    /\ InFlight = 1
    /\ ops[1].kind \in {"export", "edit"}
    /\ currentImage = 1
    /\ Len(textOverlays) = 2
    /\ textOverlays[1].id = selectedTextId
    /\ Len(PreviewRender.boxes) = 1

\* C18: once the preview is painted, every selection box on it is the hit
\* box of the selected overlay: the same centre, as wide as the measured
\* text, as high as the effective font size.
OutlineIsHitBox ==
    (currentImage # NoImage /\ canvas.image = currentImage) =>
        \A k \in 1..Len(PreviewRender.boxes) :
           \E i \in 1..Len(textOverlays) :
              LET drawn == PreviewRender.boxes[k]
                  hit == CentredBox(textOverlays[i], canvas)
              IN /\ textOverlays[i].id = selectedTextId
                 /\ 2 * drawn.x + drawn.width = 2 * hit.cx
                 /\ 2 * drawn.y + drawn.height = 2 * hit.cy
                 /\ drawn.width = hit.width
                 /\ drawn.height = hit.height

AdjustmentKeys ==
    {"brightness", "contrast", "saturation", "grayscale", "sepia", "blur"}

AdjustmentsInRange ==
    \A key \in AdjustmentKeys :
        /\ adjustments[key] >= DeclaredRange(key).min
        /\ adjustments[key] <= DeclaredRange(key).max

EditCallCarriesComposite ==
    \A i \in 1..Len(ops) :
        (ops[i].kind = "edit" /\ ops[i].stage = "request") =>
            LET call == GeminiCall(PngBase64(ops[i].img), ops[i].prompt)
                sent == GenerateContentRequest(call.apiKey, call.base64Image,
                                               call.mimeType, call.prompt)
            IN /\ call.base64Image = PngBase64(ops[i].img)
               /\ call.mimeType = ImagePng
               /\ call.prompt = ops[i].prompt
               /\ sent.inlineData.data = PngBase64(ops[i].img)
               /\ sent.inlineData.mimeType = ImagePng
               /\ sent.text = ops[i].prompt

\* C21: while the busy flag is set, a pointer-down selects and grabs the
\* topmost overlay under the point (or empties the selection), a
\* pointer-move of a drag puts the selected overlay at the point minus the
\* grab offset, a pointer-up ends the drag, and none of them touches the
\* busy flag or the operations in flight; a drag that is on while busy can
\* move its overlay.
PointerIgnoresBusy ==
    /\ []((isProcessing /\ isDragging
              /\ selectedTextId \in Ids(textOverlays))
            => ENABLED <<\E e \in MouseEvents :
                            handleCanvasMouseMove(e)>>_textOverlays)
    /\ [][isProcessing =>
          /\ \A e \in MouseEvents :
                LET P == BitmapPoint(e)
                    struck == Struck(P)
                IN /\ (currentImage # NoImage /\ handleCanvasMouseDown(e))
                      => /\ UNCHANGED <<isProcessing, ops, textOverlays>>
                         /\ IF struck # {}
                            THEN LET o == textOverlays[Last(struck)]
                                 IN /\ selectedTextId' = o.id
                                    /\ isDragging'
                                    /\ dragOffset' =
                                           [x |-> P.x - Anchor(o, canvas).x,
                                            y |-> P.y - Anchor(o, canvas).y]
                            ELSE selectedTextId' = NoId
                   /\ (isDragging /\ selectedTextId # NoId
                          /\ handleCanvasMouseMove(e))
                      => /\ UNCHANGED <<isProcessing, ops, selectedTextId>>
                         /\ Len(textOverlays') = Len(textOverlays)
                         /\ \A i \in 1..Len(textOverlays) :
                               textOverlays'[i] =
                                  IF textOverlays[i].id = selectedTextId
                                  THEN [textOverlays[i] EXCEPT
                                          !.x = (P.x - dragOffset.x)
                                                   \div canvas.width,
                                          !.y = (P.y - dragOffset.y)
                                                   \div canvas.height]
                                  ELSE textOverlays[i]
          /\ handleCanvasMouseUp
                => /\ ~isDragging'
                   /\ UNCHANGED <<isProcessing, ops, selectedTextId,
                                  textOverlays>>]_vars

\* C21 witness: a fetch is in flight over a loaded bitmap while the selected
\* overlay is held off its centre and has left its initial position.
DraggedWhileFetching ==
    /\ isProcessing
    /\ InFlight = 1
    /\ ops[1].kind = "fetch"
    /\ currentImage # NoImage
    /\ isDragging
    /\ dragOffset.x # 0
    /\ \E i \in 1..Len(textOverlays) :
          /\ textOverlays[i].id = selectedTextId
          /\ textOverlays[i].x # 500

\* C22: once no preview render is pending, the preview canvas shows the
\* current bitmap, so that no render of an earlier bitmap has painted
\* after the render of the current one.
PreviewNeverStale ==
    (/\ currentImage # NoImage
     /\ Decodable(currentImage)
     /\ previewLoads = {})
    => canvas.image = currentImage

\* C23: while a drag is on, the selection is the id of an overlay in the
\* list.
DragHasLiveTarget ==
    isDragging =>
        /\ selectedTextId # NoId
        /\ selectedTextId \in Ids(textOverlays)

\* An overlay without its position.
Unplaced(overlay) == [overlay EXCEPT !.x = 0, !.y = 0]

\* C24: a pointer-move changes no state cell of the session but the overlay
\* list, keeps the length and order of the list, changes at most x and y
\* of the overlays carrying the selected id, and that only during a drag;
\* without a drag, without a selection or with a selection that names no
\* overlay of the list the list stays as it is.
PointerMoveFrame ==
    [][\A e \in MouseEvents :
          handleCanvasMouseMove(e)
          => /\ UNCHANGED SessionButOverlays
             /\ Len(textOverlays') = Len(textOverlays)
             /\ \A i \in 1..Len(textOverlays) :
                   IF isDragging /\ textOverlays[i].id = selectedTextId
                   THEN Unplaced(textOverlays'[i]) = Unplaced(textOverlays[i])
                   ELSE textOverlays'[i] = textOverlays[i]
             /\ (\/ ~isDragging
                 \/ selectedTextId = NoId
                 \/ selectedTextId \notin Ids(textOverlays))
                => UNCHANGED textOverlays]_vars

\* C24 witness: of two overlays with different ids the selected second one
\* is being dragged and has left the centre, with its size as it was; the
\* first one is still at the centre.
SecondOfTwoDragged ==
    /\ Len(textOverlays) = 2
    /\ textOverlays[1].id # textOverlays[2].id
    /\ isDragging
    /\ selectedTextId = textOverlays[2].id
    /\ textOverlays[2].x # 500
    /\ textOverlays[2].y # 500
    /\ textOverlays[2].fontSize = 48
    /\ textOverlays[1].x = 500
    /\ textOverlays[1].y = 500

====
